---- MODULE Spec2Model ----
(***************************************************************************)
(* ShopHub backend: the order / catalog transaction core.                  *)
(*                                                                         *)
(* The committed store (users, products, orders, order_items) is the only  *)
(* shared state.  Every request is one atomic action, except create_order, *)
(* whose session runs in steps (existence query, flush of the Order row,   *)
(* one add per item, commit) with other requests interleaved.              *)
(* The concurrency specifications run update_order_status, create_order   *)
(* and register in steps, in one session per request; the endpoints        *)
(* specification runs the handlers of endpoints/orders.py.                 *)
(***************************************************************************)
EXTENDS Integers, Sequences, FiniteSets

VARIABLES
    users,      \* committed rows of table users
    products,   \* committed rows of table products
    orders,     \* committed rows of table orders
    items,      \* committed rows of table order_items
    clock,      \* the store's now()
    nextPid,    \* product identifiers generated so far
    nextOid,    \* order identifiers generated so far
    sess,       \* the session of the create_order request in flight
    resp,       \* the response being handed to a caller
    pre,        \* the committed store as the request of resp found it
    pages,      \* the last list responses (pagination specification only)
    calls       \* the sessions of the concurrent requests (concurrency specifications only)

vars == <<users, products, orders, items, clock, nextPid, nextOid, sess, resp, pre, pages,
          calls>>

(***************************************************************************)
(* Bounds of the model.                                                    *)
(***************************************************************************)
MaxProducts == 2    \* product identifiers are 1..MaxProducts
MaxOrders == 1      \* order identifiers are 1..MaxOrders
MaxItems == 2       \* longest item list of a create_order request
MaxClock == 1       \* now() ranges over 0..MaxClock
MaxSkip == 1        \* skip ranges over 0..MaxSkip
MaxLimit == 2       \* limit ranges over 1..MaxLimit
MaxPageRows == 2    \* rows of a table in the pagination specification
MaxUsers == 3       \* users of the store in the order specification
MaxAuthUsers == 4   \* users of the store in the authentication specification
MaxCalls == 2       \* requests in flight at once in the concurrency specifications
MaxCallOrders == 2  \* orders of the store in the concurrent orders specification

(***************************************************************************)
(* Enumerations and input domains.                                         *)
(***************************************************************************)
CUSTOMER == "customer"
ADMIN == "admin"
UserRole == {CUSTOMER, ADMIN}

OrderStatus == {"pending", "processing", "shipped", "delivered", "cancelled"}

\* An Optional value is a sequence of at most one element: <<>> is None.
None == <<>>
Some(v) == <<v>>

\* OrderUpdate.status: None, or a string matching the pattern of the five values.
OrderUpdate == {[status |-> None]} \cup {[status |-> Some(st)] : st \in OrderStatus}

\* get_password_hash: a one-way hash of the plaintext; verify_password accepts the
\* plaintext the hash was made from and no other.
get_password_hash(password) == <<"hash", password>>
verify_password(plain_password, hashed_password) ==
    hashed_password = get_password_hash(plain_password)

\* An email address is a sequence of one-character strings.
AdminEmail == <<"a", "d", "m", "i", "n", "@", "s", "h", "o", "p", "h", "u", "b", ".", "c", "o", "m">>
JohnEmail == <<"c", "u", "s", "t", "o", "m", "e", "r", "@", "e", "x", "a", "m", "p", "l", "e", ".", "c", "o", "m">>
MaryEmail == <<"m", "a", "r", "y", "@", "e", "x", "a", "m", "p", "l", "e", ".", "c", "o", "m">>

\* seed_database's two users, and a second customer registered afterwards.
SeedUsers ==
    { [id |-> "u_admin", email |-> AdminEmail, password |-> get_password_hash("admin123"),
       name |-> Some("Admin User"), role |-> ADMIN],
      [id |-> "u_john", email |-> JohnEmail, password |-> get_password_hash("password123"),
       name |-> Some("John Doe"), role |-> CUSTOMER] }
RegisteredUsers ==
    { [id |-> "u_mary", email |-> MaryEmail, password |-> get_password_hash("mary123"),
       name |-> Some("Mary"), role |-> CUSTOMER] }

\* generate_uuid: the identifiers of the users registered after the seed, in the
\* order of their registration.
UserIds == <<"u_mary", "u_zoe", "u_kim">>

\* The ids a request may name: a product id names no product before the product is
\* created and after it is deleted; order id MaxOrders + 1 never names an order.
PidRefs == 1..MaxProducts
OidRefs == 1..(MaxOrders + 1)
Quantities == {1}             \* OrderItemBase.quantity, gt=0
Prices == {10}                \* OrderItemBase.price, gt=0
Totals == {25}                \* OrderCreate.total, gt=0 (never the sum of the items)

Skips == 0..MaxSkip           \* Query(0, ge=0)
Limits == 1..MaxLimit         \* Query(100, ge=1, le=100)
StatusFilters == {None, Some("shipped")}

OrderItemCreate == [product_id : PidRefs, quantity : Quantities, price : Prices]

RECURSIVE SeqsUpTo(_, _)
SeqsUpTo(S, n) ==
    IF n = 0 THEN {<<>>}
    ELSE LET shorter == SeqsUpTo(S, n - 1)
         IN  shorter \cup {Append(s, x) : s \in {t \in shorter : Len(t) = n - 1}, x \in S}

\* Mutant of OrderCreate: items may be empty.
OrderCreate_items_may_be_empty ==
    [items : SeqsUpTo(OrderItemCreate, MaxItems), total : Totals]

\* OrderCreate: items has min_length=1.
OrderCreate ==
    [items : {s \in SeqsUpTo(OrderItemCreate, MaxItems) : Len(s) >= 1}, total : Totals]

\* Text is a sequence of one-character strings, so that ILIKE can look inside it.
\* ProductCreate payloads (ProductBase: every field present).
ProductCreate ==
    { [name |-> <<"M", "a", "t">>, description |-> <<"y", "o", "g", "a">>, price |-> 10,
       image |-> "mat.png", category |-> "sports", stock |-> 0, featured |-> FALSE] }

\* ProductUpdate payloads: fields are the fields the request set (model_dump(exclude_unset=True)
\* keeps exactly those), v carries their values; nulls are the fields the request set
\* to null, which Optional[...] accepts.
ProductUpdate ==
    { [fields |-> {}, nulls |-> {}, v |-> [price |-> 20, stock |-> 5]],
      [fields |-> {"price", "stock"}, nulls |-> {}, v |-> [price |-> 20, stock |-> 5]],
      [fields |-> {"price", "stock"}, nulls |-> {"stock"}, v |-> [price |-> 20, stock |-> 5]] }

Range(s) == {s[i] : i \in DOMAIN s}

(***************************************************************************)
(* Responses.                                                              *)
(***************************************************************************)
OK == "ok"
NOT_FOUND == "not_found"        \* HTTP 404
FORBIDDEN == "forbidden"        \* HTTP 403
STORE_ERROR == "store_error"    \* an exception of the store, HTTP 500
ALREADY_EXISTS == "already_exists"            \* HTTP 400, ErrorMessage.USER_ALREADY_EXISTS
INVALID_CREDENTIALS == "invalid_credentials"  \* HTTP 401, ErrorMessage.INVALID_CREDENTIALS
INTERNAL_ERROR == "internal_error"  \* an exception of the handler's own code, HTTP 500

Response(op, actor, code, id, req, out) ==
    [op |-> op, actor |-> actor, code |-> code, id |-> id, req |-> req, out |-> out]

NoResponse == Response("none", "none", OK, 0, <<>>, <<>>)
Responded == resp.op # "none"

Snapshot == [users |-> users, products |-> products, orders |-> orders, items |-> items]
NoSnapshot == [users |-> {}, products |-> {}, orders |-> {}, items |-> {}]

\* A step that ends a request hands its response to the caller; pre records the
\* committed store the step started from.
Respond(r) == resp' = r /\ pre' = Snapshot

IdleSession == [pc |-> "idle"]

\* The concurrent requests: each has its own database session (get_db yields one
\* session per request).
Calls == 1..MaxCalls
NoCalls == [c \in Calls |-> IdleSession]

(***************************************************************************)
(* Queries of the store.                                                   *)
(***************************************************************************)
Min(a, b) == IF a <= b THEN a ELSE b

\* query.filter(Model.id == x).first(): the row, as a set of at most one row.
ProductById(product_id) == {p \in products : p.id = product_id}
OrderById(order_id) == {o \in orders : o.id = order_id}
ItemsOf(order_id) == {i \in items : i.order_id = order_id}

\* order_by(created_at.desc()): created_at is the only sort key, so the rows come in
\* any order in which created_at never increases; the store chooses among rows of
\* equal created_at, and chooses anew for every query.
IsDesc(s) == \A i, j \in DOMAIN s : i < j => s[i].created_at >= s[j].created_at

RECURSIVE Orderings(_)
Orderings(rows) ==
    IF rows = {} THEN {<<>>}
    ELSE UNION {{<<r>> \o t : t \in Orderings(rows \ {r})} : r \in rows}

order_by_created_at_desc(rows) == {s \in Orderings(rows) : IsDesc(s)}

\* .offset(skip).limit(limit)
offset_limit(s, skip, limit) == SubSeq(s, skip + 1, Min(Len(s), skip + limit))

(***************************************************************************)
(* Dependencies of the endpoints (app/api/deps.py, endpoints/products.py). *)
(* FastAPI solves an endpoint's dependencies in the order of its           *)
(* parameters; the first one that raises decides the response.             *)
(***************************************************************************)
get_current_admin_user(current_user) ==
    IF current_user.role # ADMIN THEN FORBIDDEN ELSE OK

get_product_or_404_service(product_id) ==
    IF ProductById(product_id) = {} THEN NOT_FOUND ELSE OK

RECURSIVE Solve(_)
Solve(deps) ==
    IF deps = <<>> THEN OK
    ELSE IF Head(deps) # OK THEN Head(deps)
    ELSE Solve(Tail(deps))

create_product_deps(current_user) ==
    Solve(<<get_current_admin_user(current_user)>>)

update_product_deps(product_id, current_user) ==
    Solve(<<get_product_or_404_service(product_id), get_current_admin_user(current_user)>>)

delete_product_deps(product_id, current_user) ==
    Solve(<<get_product_or_404_service(product_id), get_current_admin_user(current_user)>>)

(***************************************************************************)
(* Catalog: ProductService and the product endpoints.                      *)
(***************************************************************************)
\* Product(**product_data.model_dump()); id and the timestamps are the column defaults.
NewProduct(product_data, id) ==
    [id |-> id, name |-> product_data.name, description |-> product_data.description,
     price |-> product_data.price, image |-> product_data.image,
     category |-> product_data.category, stock |-> product_data.stock,
     featured |-> product_data.featured, created_at |-> clock, updated_at |-> clock]

\* for field, value in update_data.items(): setattr(product, field, value)
SetFields(product, product_data) ==
    LET Val(f) == IF f \in product_data.fields THEN product_data.v[f] ELSE product[f]
    IN  [id |-> product.id, name |-> Val("name"), description |-> Val("description"),
         price |-> Val("price"), image |-> Val("image"), category |-> Val("category"),
         stock |-> Val("stock"), featured |-> Val("featured"),
         created_at |-> product.created_at, updated_at |-> product.updated_at]

\* The UPDATE is emitted only for a row that changed; onupdate=func.now() then sets updated_at.
Touch(old, new) == IF new = old THEN old ELSE [new EXCEPT !.updated_at = clock]

\* setattr(product, field, None) on a column that is nullable=False (every column of
\* Product is): the UPDATE fails at db.commit() and nothing is written.
NullFails(product_data) == product_data.nulls # {}

create_product(current_user, product_data) ==
    /\ ~Responded
    /\ LET code == create_product_deps(current_user)
           new_product == NewProduct(product_data, nextPid + 1)
       IN  IF code # OK
           THEN /\ Respond(Response("create_product", current_user.id, code, 0, product_data, <<>>))
                /\ UNCHANGED <<users, products, orders, items, clock, nextPid, nextOid, sess, pages,
                               calls>>
           ELSE /\ nextPid < MaxProducts
                /\ products' = products \cup {new_product}
                /\ nextPid' = nextPid + 1
                /\ Respond(Response("create_product", current_user.id, OK, new_product.id,
                                    product_data, new_product))
                /\ UNCHANGED <<users, orders, items, clock, nextOid, sess, pages, calls>>

update_product(current_user, product_id, product_data) ==
    /\ ~Responded
    /\ LET code == update_product_deps(product_id, current_user)
       IN  IF code # OK
           THEN /\ Respond(Response("update_product", current_user.id, code, product_id,
                                    product_data, <<>>))
                /\ UNCHANGED <<users, products, orders, items, clock, nextPid, nextOid, sess, pages,
                               calls>>
           ELSE IF NullFails(product_data)
           THEN /\ Respond(Response("update_product", current_user.id, STORE_ERROR, product_id,
                                    product_data, <<>>))
                /\ UNCHANGED <<users, products, orders, items, clock, nextPid, nextOid, sess, pages,
                               calls>>
           ELSE \E product \in ProductById(product_id) :
                   LET updated == Touch(product, SetFields(product, product_data))
                   IN  /\ products' = (products \ {product}) \cup {updated}
                       /\ Respond(Response("update_product", current_user.id, OK, product_id,
                                           product_data, updated))
                       /\ UNCHANGED <<users, orders, items, clock, nextPid, nextOid, sess, pages,
                                      calls>>

\* db.delete(product): Product.order_items has no delete cascade and passive_deletes is
\* off, so the unit of work first detaches the product's OrderItems by setting their
\* product_id to NULL; the column is nullable=False, the UPDATE fails and nothing commits.
DetachFails(product) == \E i \in items : i.product_id = product.id

\* Mutant of delete_product: the product is deleted before the role is checked.
delete_product_before_role_check(current_user, product_id) ==
    /\ ~Responded
    /\ LET code == delete_product_deps(product_id, current_user)
       IN  IF code = NOT_FOUND
           THEN /\ Respond(Response("delete_product", current_user.id, code, product_id, <<>>, <<>>))
                /\ UNCHANGED <<users, products, orders, items, clock, nextPid, nextOid, sess, pages,
                               calls>>
           ELSE \E product \in ProductById(product_id) :
                   IF DetachFails(product)
                   THEN /\ Respond(Response("delete_product", current_user.id, STORE_ERROR,
                                            product_id, <<>>, <<>>))
                        /\ UNCHANGED <<users, products, orders, items, clock, nextPid, nextOid,
                                       sess, pages, calls>>
                   ELSE /\ products' = products \ {product}
                        /\ Respond(Response("delete_product", current_user.id, code, product_id,
                                            <<>>, <<>>))
                        /\ UNCHANGED <<users, orders, items, clock, nextPid, nextOid, sess, pages,
                                       calls>>

delete_product(current_user, product_id) ==
    /\ ~Responded
    /\ LET code == delete_product_deps(product_id, current_user)
       IN  IF code # OK
           THEN /\ Respond(Response("delete_product", current_user.id, code, product_id, <<>>, <<>>))
                /\ UNCHANGED <<users, products, orders, items, clock, nextPid, nextOid, sess, pages,
                               calls>>
           ELSE \E product \in ProductById(product_id) :
                   IF DetachFails(product)
                   THEN /\ Respond(Response("delete_product", current_user.id, STORE_ERROR,
                                            product_id, <<>>, <<>>))
                        /\ UNCHANGED <<users, products, orders, items, clock, nextPid, nextOid,
                                       sess, pages, calls>>
                   ELSE /\ products' = products \ {product}
                        /\ Respond(Response("delete_product", current_user.id, OK, product_id,
                                            <<>>, <<>>))
                        /\ UNCHANGED <<users, orders, items, clock, nextPid, nextOid, sess, pages,
                                       calls>>

(***************************************************************************)
(* ILIKE '%search%' (get_products).                                        *)
(***************************************************************************)
UpperCase == <<"A", "B", "C", "D", "E", "F", "G", "H", "I", "J", "K", "L", "M",
               "N", "O", "P", "Q", "R", "S", "T", "U", "V", "W", "X", "Y", "Z">>
LowerCase == <<"a", "b", "c", "d", "e", "f", "g", "h", "i", "j", "k", "l", "m",
               "n", "o", "p", "q", "r", "s", "t", "u", "v", "w", "x", "y", "z">>

Lower(c) ==
    IF \E i \in DOMAIN UpperCase : UpperCase[i] = c
    THEN LowerCase[CHOOSE i \in DOMAIN UpperCase : UpperCase[i] = c]
    ELSE c

\* LIKE: % stands for any run of characters, _ for any one character.
RECURSIVE Like(_, _)
Like(text, pattern) ==
    IF pattern = <<>> THEN text = <<>>
    ELSE IF Head(pattern) = "%"
         THEN Like(text, Tail(pattern)) \/ (text # <<>> /\ Like(Tail(text), pattern))
    ELSE IF text = <<>> THEN FALSE
    ELSE IF Head(pattern) = "_" THEN Like(Tail(text), Tail(pattern))
    ELSE Lower(Head(text)) = Lower(Head(pattern)) /\ Like(Tail(text), Tail(pattern))

ilike(text, pattern) == Like(text, pattern)

\* search_filter = f"%{search}%"
search_filter(search) == <<"%">> \o search \o <<"%">>

\* ProductService.get_products: the rows the filters keep.
get_products_rows(category, featured, search) ==
    {p \in products :
        /\ (category # None /\ category[1] # "" /\ category[1] # "all")
              => p.category = category[1]
        /\ featured # None => p.featured = featured[1]
        /\ (search # None /\ search[1] # <<>>)
              => \/ ilike(p.name, search_filter(search[1]))
                 \/ ilike(p.description, search_filter(search[1]))}

\* ProductService.get_products: the pages the store may return.
get_products_pages(category, featured, search, skip, limit) ==
    {offset_limit(s, skip, limit) :
        s \in order_by_created_at_desc(get_products_rows(category, featured, search))}

(***************************************************************************)
(* AuthService: register and login.                                        *)
(***************************************************************************)
\* EmailStr: the validated address keeps the local part as it was typed and has the
\* domain in lower case.
RECURSIVE AtSign(_, _)
AtSign(raw, i) == IF i = 0 \/ raw[i] = "@" THEN i ELSE AtSign(raw, i - 1)

EmailStr(raw) ==
    [i \in DOMAIN raw |-> IF i > AtSign(raw, Len(raw)) THEN Lower(raw[i]) ELSE raw[i]]

RawEmails == { <<"z", "@", "x">>, <<"Z", "@", "x">>, <<"z", "@", "X">> }
Passwords == {"secret1", "secret2"}

\* UserCreate and UserLogin payloads, as the services receive them (validated).
UserCreate == [email : {EmailStr(r) : r \in RawEmails}, password : Passwords, name : {None}]
UserLogin ==
    [email : {EmailStr(r) : r \in RawEmails} \cup {JohnEmail},
     password : Passwords \cup {"password123"}]

\* The registration and the logins of the order specification.
MaryCreate == {[email |-> MaryEmail, password |-> "mary123", name |-> Some("Mary")]}
MaryLogin == [email : {MaryEmail}, password : {"mary123", "secret1"}]

\* _create_access_token: the token carries the user's id as its subject.
create_access_token(user_id) == [sub |-> user_id]

\* UserResponse: the user without the password.
UserResponse(user) == [id |-> user.id, email |-> user.email, name |-> user.name, role |-> user.role]

TokenResponse(user) ==
    [access_token |-> create_access_token(user.id), token_type |-> "bearer",
     user |-> UserResponse(user)]

\* The HTTPException of login: status 401 (the response code), detail and headers.
InvalidCredentialsError ==
    [detail |-> "Incorrect email or password", headers |-> {<<"WWW-Authenticate", "Bearer">>}]

\* The HTTPException of register: status 400 (the response code) and detail.
UserAlreadyExistsError == [detail |-> "User with this email already exists"]

\* Mutant of _user_exists: the emails are compared without regard to case.
_user_exists_ignoring_case(email) ==
    \E u \in users :
       /\ Len(u.email) = Len(email)
       /\ \A i \in DOMAIN email : Lower(u.email[i]) = Lower(email[i])

_user_exists(email) == \E u \in users : u.email = email

\* Mutant of _create_user: the new user is an admin.
_create_user_as_admin(user_data) ==
    [id |-> UserIds[Cardinality(users) - Cardinality(SeedUsers) + 1],
     email |-> user_data.email, password |-> get_password_hash(user_data.password),
     name |-> user_data.name, role |-> ADMIN]

\* User(email=..., password=hashed_password, name=..., role=UserRole.CUSTOMER)
_create_user(user_data) ==
    [id |-> UserIds[Cardinality(users) - Cardinality(SeedUsers) + 1],
     email |-> user_data.email, password |-> get_password_hash(user_data.password),
     name |-> user_data.name, role |-> CUSTOMER]

register(user_data, max_users) ==
    /\ ~Responded
    /\ IF _user_exists(user_data.email)
       THEN /\ Respond(Response("register", "anonymous", ALREADY_EXISTS, 0, user_data,
                                UserAlreadyExistsError))
            /\ UNCHANGED users
       ELSE /\ Cardinality(users) < max_users
            /\ users' = users \cup {_create_user(user_data)}
            /\ Respond(Response("register", "anonymous", OK, 0, user_data,
                                TokenResponse(_create_user(user_data))))
    /\ UNCHANGED <<products, orders, items, clock, nextPid, nextOid, sess, pages, calls>>

\* Mutant of login: an unknown email is told apart from a wrong password.
login_user_not_found(credentials) ==
    /\ ~Responded
    /\ LET found == {u \in users : u.email = credentials.email}
       IN  IF found = {}
           THEN Respond(Response("login", "anonymous", INVALID_CREDENTIALS, 0, credentials,
                                 [detail |-> "User not found",
                                  headers |-> {<<"WWW-Authenticate", "Bearer">>}]))
           ELSE LET user == CHOOSE u \in found : TRUE
                IN  IF ~verify_password(credentials.password, user.password)
                    THEN Respond(Response("login", "anonymous", INVALID_CREDENTIALS, 0,
                                          credentials, InvalidCredentialsError))
                    ELSE Respond(Response("login", "anonymous", OK, 0, credentials,
                                          TokenResponse(user)))
    /\ UNCHANGED <<users, products, orders, items, clock, nextPid, nextOid, sess, pages, calls>>

login(credentials) ==
    /\ ~Responded
    /\ LET found == {u \in users : u.email = credentials.email}
       IN  IF found = {}
           THEN Respond(Response("login", "anonymous", INVALID_CREDENTIALS, 0, credentials,
                                 InvalidCredentialsError))
           ELSE LET user == CHOOSE u \in found : TRUE
                IN  IF ~verify_password(credentials.password, user.password)
                    THEN Respond(Response("login", "anonymous", INVALID_CREDENTIALS, 0,
                                          credentials, InvalidCredentialsError))
                    ELSE Respond(Response("login", "anonymous", OK, 0, credentials,
                                          TokenResponse(user)))
    /\ UNCHANGED <<users, products, orders, items, clock, nextPid, nextOid, sess, pages, calls>>

(***************************************************************************)
(* OrderService.create_order, one action per step of its session.          *)
(***************************************************************************)
\* product_ids = [item.product_id for item in order_data.items]
product_ids(order_data) == [i \in DOMAIN order_data.items |-> order_data.items[i].product_id]

\* self.db.query(Product).filter(Product.id.in_(product_ids)).all()
products_in(order_data) == {p \in products : p.id \in Range(product_ids(order_data))}

\* if len(products) != len(product_ids)
lookup_mismatch(order_data) ==
    Cardinality(products_in(order_data)) # Len(product_ids(order_data))

\* Mutant of missing_ids: only the first missing id of the request is reported.
missing_ids_first(order_data) ==
    LET ids == product_ids(order_data)
        absent == {i \in DOMAIN ids : ProductById(ids[i]) = {}}
    IN  {ids[i] : i \in {j \in absent : \A k \in absent : j <= k}}

\* missing_ids = set(product_ids) - found_ids
missing_ids(order_data) ==
    Range(product_ids(order_data)) \ {p.id : p \in products_in(order_data)}

\* detail=f"Products not found: {', '.join(missing_ids)}": the ids the message names.
not_found_detail(order_data) == missing_ids(order_data)

\* sum(item.price * item.quantity) over the items of a request.
RECURSIVE ItemsSum(_)
ItemsSum(item_list) ==
    IF item_list = <<>> THEN 0
    ELSE Head(item_list).price * Head(item_list).quantity + ItemsSum(Tail(item_list))

\* Mutant of NewOrder: the total is recomputed from the items.
NewOrder_total_from_items(current_user, order_data, id) ==
    [id |-> id, user_id |-> current_user.id, total |-> ItemsSum(order_data.items),
     status |-> "pending", created_at |-> clock, updated_at |-> clock]

\* Mutant of NewOrder: an order is created in status processing.
NewOrder_processing(current_user, order_data, id) ==
    [id |-> id, user_id |-> current_user.id, total |-> order_data.total,
     status |-> "processing", created_at |-> clock, updated_at |-> clock]

\* Order(user_id=current_user.id, total=order_data.total, status="pending")
NewOrder(current_user, order_data, id) ==
    [id |-> id, user_id |-> current_user.id, total |-> order_data.total,
     status |-> "pending", created_at |-> clock, updated_at |-> clock]

\* OrderItem(order_id=new_order.id, product_id=..., quantity=..., price=...)
NewOrderItem(order_id, item_data) ==
    [order_id |-> order_id, product_id |-> item_data.product_id,
     quantity |-> item_data.quantity, price |-> item_data.price]

\* The INSERT of a pending OrderItem: id and created_at are the column defaults.
InsertedItem(pending, k) ==
    [id |-> <<pending.order_id, k>>, order_id |-> pending.order_id,
     product_id |-> pending.product_id, quantity |-> pending.quantity,
     price |-> pending.price, created_at |-> clock]

\* Lines 16-25: the existence query; 404 when the counts differ.  The session keeps
\* the handler's locals: the request, the ids of the rows the query returned, the
\* pending rows.
create_order_query(current_user, order_data) ==
    /\ ~Responded
    /\ sess.pc = "idle"
    /\ IF lookup_mismatch(order_data)
       THEN /\ Respond(Response("create_order", current_user.id, NOT_FOUND, 0, order_data,
                                not_found_detail(order_data)))
            /\ UNCHANGED sess
       ELSE /\ nextOid < MaxOrders
            /\ sess' = [pc |-> "checked", user |-> current_user, data |-> order_data,
                        found |-> {p.id : p \in products_in(order_data)}]
            /\ UNCHANGED <<resp, pre>>
    /\ UNCHANGED <<users, products, orders, items, clock, nextPid, nextOid, pages, calls>>

\* Mutant of create_order_flush: the Order row is committed where it is flushed.
create_order_flush_commits ==
    /\ ~Responded
    /\ sess.pc = "checked"
    /\ nextOid' = nextOid + 1
    /\ orders' = orders \cup {NewOrder(sess.user, sess.data, nextOid + 1)}
    /\ sess' = [pc |-> "flushed", user |-> sess.user, data |-> sess.data,
                found |-> sess.found,
                order |-> NewOrder(sess.user, sess.data, nextOid + 1), added |-> <<>>]
    /\ UNCHANGED <<users, products, items, clock, nextPid, resp, pre, pages, calls>>

\* Lines 28-34: db.add(new_order); db.flush().  The row is written inside the
\* session's transaction; no other session sees it.
create_order_flush ==
    /\ ~Responded
    /\ sess.pc = "checked"
    /\ nextOid' = nextOid + 1
    /\ sess' = [pc |-> "flushed", user |-> sess.user, data |-> sess.data,
                found |-> sess.found,
                order |-> NewOrder(sess.user, sess.data, nextOid + 1), added |-> <<>>]
    /\ UNCHANGED <<users, products, orders, items, clock, nextPid, resp, pre, pages, calls>>

\* Lines 37-44: one pass of the loop, db.add(order_item).
create_order_add ==
    /\ ~Responded
    /\ sess.pc = "flushed"
    /\ Len(sess.added) < Len(sess.data.items)
    /\ sess' = [sess EXCEPT !.added =
                   Append(@, NewOrderItem(sess.order.id, sess.data.items[Len(@) + 1]))]
    /\ UNCHANGED <<users, products, orders, items, clock, nextPid, nextOid, resp, pre, pages,
                   calls>>

\* Mutant of create_order_commit: the stock of every ordered product is decremented.
create_order_commit_decrements_stock ==
    /\ ~Responded
    /\ sess.pc = "flushed"
    /\ Len(sess.added) = Len(sess.data.items)
    /\ LET new_items == {InsertedItem(sess.added[k], k) : k \in DOMAIN sess.added}
           ordered == {i.product_id : i \in new_items}
       IN  /\ orders' = orders \cup {sess.order}
           /\ items' = items \cup new_items
           /\ products' = {IF p.id \in ordered THEN [p EXCEPT !.stock = @ - 1] ELSE p :
                              p \in products}
           /\ Respond(Response("create_order", sess.user.id, OK, sess.order.id, sess.data,
                               [order |-> sess.order, items |-> new_items]))
    /\ sess' = IdleSession
    /\ UNCHANGED <<users, clock, nextPid, nextOid, pages, calls>>

\* Lines 46-49: db.commit() inserts the pending items and makes the transaction's
\* rows visible together; db.refresh(new_order); return new_order.
create_order_commit ==
    /\ ~Responded
    /\ sess.pc = "flushed"
    /\ Len(sess.added) = Len(sess.data.items)
    /\ LET new_items == {InsertedItem(sess.added[k], k) : k \in DOMAIN sess.added}
       IN  /\ orders' = orders \cup {sess.order}
           /\ items' = items \cup new_items
           /\ Respond(Response("create_order", sess.user.id, OK, sess.order.id, sess.data,
                               [order |-> sess.order, items |-> new_items]))
    /\ sess' = IdleSession
    /\ UNCHANGED <<users, products, clock, nextPid, nextOid, pages, calls>>

\* A failure of the store at the flush, at an add or at the commit: the exception
\* leaves create_order, nothing was committed and the session's transaction is dropped.
create_order_fail ==
    /\ ~Responded
    /\ sess.pc \in {"checked", "flushed"}
    /\ Respond(Response("create_order", sess.user.id, STORE_ERROR,
                        IF sess.pc = "flushed" THEN sess.order.id ELSE 0, sess.data, <<>>))
    /\ sess' = IdleSession
    /\ UNCHANGED <<users, products, orders, items, clock, nextPid, nextOid, pages, calls>>

(***************************************************************************)
(* OrderService: reads and the status update.                              *)
(***************************************************************************)
\* Mutant of get_order_with_auth: only the owner may read the order.
get_order_with_auth_owner_only(order_id, current_user) ==
    IF OrderById(order_id) = {}
    THEN [code |-> NOT_FOUND, out |-> <<>>]
    ELSE LET order == CHOOSE o \in OrderById(order_id) : TRUE
         IN  IF order.user_id # current_user.id
             THEN [code |-> FORBIDDEN, out |-> <<>>]
             ELSE [code |-> OK, out |-> order]

\* Mutant of get_order_with_auth: the permission check comes before the existence check.
get_order_with_auth_permission_first(order_id, current_user) ==
    IF current_user.role # ADMIN /\ ~(\E o \in OrderById(order_id) : o.user_id = current_user.id)
    THEN [code |-> FORBIDDEN, out |-> <<>>]
    ELSE IF OrderById(order_id) = {}
    THEN [code |-> NOT_FOUND, out |-> <<>>]
    ELSE [code |-> OK, out |-> CHOOSE o \in OrderById(order_id) : TRUE]

\* get_order_with_auth: 404 when there is no such order, then the ownership check.
get_order_with_auth(order_id, current_user) ==
    IF OrderById(order_id) = {}
    THEN [code |-> NOT_FOUND, out |-> <<>>]
    ELSE LET order == CHOOSE o \in OrderById(order_id) : TRUE
         IN  IF order.user_id # current_user.id /\ current_user.role # ADMIN
             THEN [code |-> FORBIDDEN, out |-> <<>>]
             ELSE [code |-> OK, out |-> order]

get_order(current_user, order_id) ==
    /\ ~Responded
    /\ LET r == get_order_with_auth(order_id, current_user)
       IN  /\ Respond(Response("get_order", current_user.id, r.code, order_id, <<>>, r.out))
           /\ UNCHANGED <<users, products, orders, items, clock, nextPid, nextOid, sess, pages,
                          calls>>

\* Mutant of SetStatus: a transition table in which delivered and cancelled are final.
SetStatus_final_states(order, order_data) ==
    IF order_data.status # None /\ order_data.status[1] # ""
          /\ order.status \notin {"delivered", "cancelled"}
    THEN [order EXCEPT !.status = order_data.status[1]]
    ELSE order

\* Mutant of SetStatus: a payload without a status sets the order back to pending.
SetStatus_absent_means_pending(order, order_data) ==
    IF order_data.status # None /\ order_data.status[1] # ""
    THEN [order EXCEPT !.status = order_data.status[1]]
    ELSE [order EXCEPT !.status = "pending"]

\* Mutant of SetStatus: cancelling an order also resets its total.
SetStatus_cancel_resets_total(order, order_data) ==
    IF order_data.status # None /\ order_data.status[1] # ""
    THEN IF order_data.status[1] = "cancelled"
         THEN [order EXCEPT !.status = "cancelled", !.total = 0]
         ELSE [order EXCEPT !.status = order_data.status[1]]
    ELSE order

\* if order_data.status: order.status = order_data.status
SetStatus(order, order_data) ==
    IF order_data.status # None /\ order_data.status[1] # ""
    THEN [order EXCEPT !.status = order_data.status[1]]
    ELSE order

\* Mutant of update_order_status: the existence check comes before the role check.
update_order_status_existence_first(order_id, order_data, current_user) ==
    /\ ~Responded
    /\ IF OrderById(order_id) = {}
       THEN /\ Respond(Response("update_order_status", current_user.id, NOT_FOUND, order_id,
                                order_data, <<>>))
            /\ UNCHANGED <<users, products, orders, items, clock, nextPid, nextOid, sess, pages,
                           calls>>
       ELSE IF current_user.role # ADMIN
       THEN /\ Respond(Response("update_order_status", current_user.id, FORBIDDEN, order_id,
                                order_data, <<>>))
            /\ UNCHANGED <<users, products, orders, items, clock, nextPid, nextOid, sess, pages,
                           calls>>
       ELSE \E order \in OrderById(order_id) :
               LET updated == Touch(order, SetStatus(order, order_data))
               IN  /\ orders' = (orders \ {order}) \cup {updated}
                   /\ Respond(Response("update_order_status", current_user.id, OK, order_id,
                                       order_data, updated))
                   /\ UNCHANGED <<users, products, items, clock, nextPid, nextOid, sess, pages,
                                  calls>>

\* update_order_status: the role check, then 404, then the write and the commit.
update_order_status(order_id, order_data, current_user) ==
    /\ ~Responded
    /\ IF current_user.role # ADMIN
       THEN /\ Respond(Response("update_order_status", current_user.id, FORBIDDEN, order_id,
                                order_data, <<>>))
            /\ UNCHANGED <<users, products, orders, items, clock, nextPid, nextOid, sess, pages,
                           calls>>
       ELSE IF OrderById(order_id) = {}
       THEN /\ Respond(Response("update_order_status", current_user.id, NOT_FOUND, order_id,
                                order_data, <<>>))
            /\ UNCHANGED <<users, products, orders, items, clock, nextPid, nextOid, sess, pages,
                           calls>>
       ELSE \E order \in OrderById(order_id) :
               LET updated == Touch(order, SetStatus(order, order_data))
               IN  /\ orders' = (orders \ {order}) \cup {updated}
                   /\ Respond(Response("update_order_status", current_user.id, OK, order_id,
                                       order_data, updated))
                   /\ UNCHANGED <<users, products, items, clock, nextPid, nextOid, sess, pages,
                                  calls>>

\* Mutant of get_user_orders_pages: the filter on the owner is missing.
get_user_orders_pages_of_all_users(current_user, skip, limit) ==
    {offset_limit(s, skip, limit) : s \in order_by_created_at_desc(orders)}

\* get_user_orders: the pages the store may return.
get_user_orders_pages(current_user, skip, limit) ==
    {offset_limit(s, skip, limit) :
        s \in order_by_created_at_desc({o \in orders : o.user_id = current_user.id})}

\* get_all_orders: the rows the optional filter keeps, and the pages.
get_all_orders_rows(status_filter) ==
    IF status_filter # None /\ status_filter[1] # ""
    THEN {o \in orders : o.status = status_filter[1]}
    ELSE orders

get_all_orders_pages(skip, limit, status_filter) ==
    {offset_limit(s, skip, limit) :
        s \in order_by_created_at_desc(get_all_orders_rows(status_filter))}

(***************************************************************************)
(* The list requests.  When it is switched on, pages keeps the last list   *)
(* response, and the one before it when the last asked for its next page.  *)
(***************************************************************************)
\* b asks for the page that follows the page a asked for, of the same list.
NextPageOf(a, b) ==
    /\ a.op = b.op /\ a.actor = b.actor
    /\ a.req.filter = b.req.filter
    /\ a.req.limit = b.req.limit
    /\ b.req.skip = a.req.skip + a.req.limit

Logged(op, actor, req, out) ==
    LET e == [op |-> op, actor |-> actor, req |-> req, out |-> out]
        last == IF pages.log = <<>> THEN <<>> ELSE <<pages.log[Len(pages.log)]>>
    IN  IF pages.on
        THEN [on |-> TRUE,
              log |-> IF last # <<>> /\ NextPageOf(last[1], e) THEN last \o <<e>> ELSE <<e>>]
        ELSE pages

get_user_orders(current_user, skip, limit) ==
    /\ ~Responded
    /\ \E page \in get_user_orders_pages(current_user, skip, limit) :
           LET req == [skip |-> skip, limit |-> limit, filter |-> None]
           IN  /\ Respond(Response("get_user_orders", current_user.id, OK, 0, req, page))
               /\ pages' = Logged("get_user_orders", current_user.id, req, page)
               /\ UNCHANGED <<users, products, orders, items, clock, nextPid, nextOid, sess, calls>>

get_all_orders(current_user, skip, limit, status_filter) ==
    /\ ~Responded
    /\ LET req == [skip |-> skip, limit |-> limit, filter |-> status_filter]
       IN  IF current_user.role # ADMIN
           THEN /\ Respond(Response("get_all_orders", current_user.id, FORBIDDEN, 0, req, <<>>))
                /\ UNCHANGED <<users, products, orders, items, clock, nextPid, nextOid, sess,
                               pages, calls>>
           ELSE \E page \in get_all_orders_pages(skip, limit, status_filter) :
                   /\ Respond(Response("get_all_orders", current_user.id, OK, 0, req, page))
                   /\ pages' = Logged("get_all_orders", current_user.id, req, page)
                   /\ UNCHANGED <<users, products, orders, items, clock, nextPid, nextOid, sess,
                                  calls>>

\* The endpoint get_products: no actor is required.
get_products(category, featured, search, skip, limit) ==
    /\ ~Responded
    /\ \E page \in get_products_pages(category, featured, search, skip, limit) :
           LET req == [skip |-> skip, limit |-> limit,
                       filter |-> [category |-> category, featured |-> featured,
                                   search |-> search]]
           IN  /\ Respond(Response("get_products", "anonymous", OK, 0, req, page))
               /\ pages' = Logged("get_products", "anonymous", req, page)
               /\ UNCHANGED <<users, products, orders, items, clock, nextPid, nextOid, sess, calls>>

(***************************************************************************)
(* The system: time passes, and any user sends any request.                *)
(***************************************************************************)
Tick ==
    /\ ~Responded
    /\ clock < MaxClock
    /\ clock' = clock + 1
    /\ UNCHANGED <<users, products, orders, items, nextPid, nextOid, sess, resp, pre, pages, calls>>

\* The seed's users exist; the tables of products, orders and order_items are empty,
\* as init_db creates them, and fill through create_product and create_order.
Init ==
    /\ users = SeedUsers
    /\ products = {}
    /\ orders = {}
    /\ items = {}
    /\ clock = 0
    /\ nextPid = 0
    /\ nextOid = 0
    /\ sess = IdleSession
    /\ resp = NoResponse
    /\ pre = NoSnapshot
    /\ pages = [on |-> FALSE, log |-> <<>>]
    /\ calls = NoCalls

\* The response is handed to the caller before the next step is taken.
deliver ==
    /\ Responded
    /\ resp' = NoResponse
    /\ pre' = NoSnapshot
    /\ UNCHANGED <<users, products, orders, items, clock, nextPid, nextOid, sess, pages, calls>>

Next ==
    \/ deliver
    \/ Tick
    \/ ~Responded /\ \E u \in users, d \in ProductCreate : create_product(u, d)
    \/ ~Responded /\ \E u \in users, p \in PidRefs, d \in ProductUpdate : update_product(u, p, d)
    \/ ~Responded /\ \E u \in users, p \in PidRefs : delete_product(u, p)
    \/ ~Responded /\ \E u \in users, d \in OrderCreate : create_order_query(u, d)
    \/ create_order_flush
    \/ create_order_add
    \/ create_order_commit
    \/ create_order_fail
    \/ ~Responded /\ \E u \in users, o \in OidRefs : get_order(u, o)
    \/ ~Responded /\ \E u \in users, o \in OidRefs, d \in OrderUpdate : update_order_status(o, d, u)
    \/ ~Responded /\ \E u \in users, k \in Skips, l \in Limits : get_user_orders(u, k, l)
    \/ ~Responded /\ \E u \in users, k \in Skips, l \in Limits, f \in StatusFilters :
             get_all_orders(u, k, l, f)
    \/ ~Responded /\ \E k \in Skips, l \in Limits : get_products(None, None, None, k, l)
    \/ ~Responded /\ \E d \in MaryCreate : register(d, MaxUsers)
    \/ ~Responded /\ \E c \in MaryLogin : login(c)

Spec == Init /\ [][Next]_vars

(***************************************************************************)
(* The pagination specification: a store that does not change, filled as   *)
(* seed_database and committed orders fill it (rows of one commit, or of   *)
(* one tick of now(), have the same created_at), and the three list        *)
(* requests.                                                               *)
(***************************************************************************)
PageSkips == 0..MaxPageRows

\* status: str = Query(None): absent, a status, or the empty text of "?status=".
PageStatusFilters == {None, Some("shipped"), Some("")}

PageProduct(id, t) ==
    LET d == CHOOSE x \in ProductCreate : TRUE
    IN  [id |-> id, name |-> d.name, description |-> d.description, price |-> d.price,
         image |-> d.image, category |-> d.category, stock |-> d.stock,
         featured |-> d.featured, created_at |-> t, updated_at |-> t]

PageOrder(id, user_id, st, t) ==
    [id |-> id, user_id |-> user_id, total |-> 25, status |-> st,
     created_at |-> t, updated_at |-> t]

InsertedItemAt(o) ==
    [id |-> <<o.id, 1>>, order_id |-> o.id, product_id |-> 1, quantity |-> 1,
     price |-> 10, created_at |-> o.created_at]

PageProducts ==
    UNION {{{PageProduct(i, t[i]) : i \in 1..n} : t \in [1..n -> 0..MaxClock]} :
              n \in 0..MaxPageRows}

PageOrders ==
    UNION {{{PageOrder(i, f[i].user_id, f[i].status, f[i].t) : i \in 1..n} :
               f \in [1..n -> [user_id : {"u_john", "u_mary"},
                               status : {"pending", "shipped"}, t : 0..MaxClock]]} :
              n \in 0..MaxPageRows}

\* Every order has the item of its request (here one item, of product 1, which existed
\* when the order was created).
InitPage ==
    /\ users = SeedUsers \cup RegisteredUsers
    /\ products \in PageProducts
    /\ orders \in PageOrders
    /\ \A o \in orders : \E p \in products : p.id = 1 /\ p.created_at <= o.created_at
    /\ items = {InsertedItemAt(o) : o \in orders}
    /\ clock = MaxClock
    /\ nextPid = Cardinality(products)
    /\ nextOid = Cardinality(orders)
    /\ sess = IdleSession
    /\ resp = NoResponse
    /\ pre = NoSnapshot
    /\ pages = [on |-> TRUE, log |-> <<>>]
    /\ calls = NoCalls

NextPage ==
    \/ deliver
    \/ ~Responded /\ \E u \in users, k \in PageSkips, l \in Limits : get_user_orders(u, k, l)
    \/ ~Responded /\ \E u \in users, k \in PageSkips, l \in Limits, f \in PageStatusFilters :
             get_all_orders(u, k, l, f)
    \/ ~Responded /\ \E k \in PageSkips, l \in Limits : get_products(None, None, None, k, l)

SpecPage == InitPage /\ [][NextPage]_vars

(***************************************************************************)
(* The catalog specification: a catalog that does not change, and          *)
(* get_products with every combination of its filters.                     *)
(***************************************************************************)
CatalogProducts ==
    { [id |-> 1, name |-> <<"M", "a", "t">>, description |-> <<"y", "o", "g", "a">>,
       price |-> 10, image |-> "mat.png", category |-> "sports", stock |-> 0,
       featured |-> FALSE, created_at |-> 0, updated_at |-> 0],
      [id |-> 2, name |-> <<"T", "a", "g">>, description |-> <<"a", "_", "b">>,
       price |-> 20, image |-> "tag.png", category |-> "home", stock |-> 5,
       featured |-> TRUE, created_at |-> 1, updated_at |-> 1] }

\* category, featured and search are Optional query parameters; "?category=" and
\* "?search=" give the empty text.
Categories == {None, Some("sports"), Some("all"), Some("")}
Featureds == {None, Some(TRUE), Some(FALSE)}
Searches == {None, Some(<<"m", "A">>), Some(<<"_">>), Some(<<>>)}

InitCatalog ==
    /\ users = SeedUsers
    /\ products \in SUBSET CatalogProducts
    /\ orders = {}
    /\ items = {}
    /\ clock = MaxClock
    /\ nextPid = Cardinality(products)
    /\ nextOid = 0
    /\ sess = IdleSession
    /\ resp = NoResponse
    /\ pre = NoSnapshot
    /\ pages = [on |-> FALSE, log |-> <<>>]
    /\ calls = NoCalls

NextCatalog ==
    \/ deliver
    \/ ~Responded /\ \E c \in Categories, f \in Featureds, q \in Searches,
                         k \in Skips, l \in Limits : get_products(c, f, q, k, l)

SpecCatalog == InitCatalog /\ [][NextCatalog]_vars

(***************************************************************************)
(* The authentication specification: the seed's users, registrations and   *)
(* logins.                                                                 *)
(***************************************************************************)
NextAuth ==
    \/ deliver
    \/ ~Responded /\ \E d \in UserCreate : register(d, MaxAuthUsers)
    \/ ~Responded /\ \E c \in UserLogin : login(c)

SpecAuth == Init /\ [][NextAuth]_vars

(***************************************************************************)
(* Concurrent requests.  Each request in flight has its own session in      *)
(* calls; its steps are the statements of its handler that reach the store, *)
(* and the steps of other requests come between them.  A session that has   *)
(* answered keeps, until its response is handed over, what the properties   *)
(* need of the call: its request and, in earlier, the request of the last   *)
(* call on the same row that committed while it was in flight.              *)
(***************************************************************************)
\* The response is handed to the caller and the session of the call is closed.
deliver_call ==
    /\ Responded
    /\ resp' = NoResponse
    /\ pre' = NoSnapshot
    /\ calls' = [c \in Calls |-> IF calls[c].pc = "done" THEN IdleSession ELSE calls[c]]
    /\ UNCHANGED <<users, products, orders, items, clock, nextPid, nextOid, sess, pages>>

\* update_order_status, lines 84-95: the role check, then get_order_by_id loads the
\* row into the session of the request.
update_order_status_load(c, order_id, order_data, current_user) ==
    /\ ~Responded
    /\ calls[c].pc = "idle"
    /\ IF current_user.role # ADMIN
       THEN /\ Respond(Response("update_order_status", current_user.id, FORBIDDEN, order_id,
                                order_data, <<>>))
            /\ UNCHANGED calls
       ELSE IF OrderById(order_id) = {}
       THEN /\ Respond(Response("update_order_status", current_user.id, NOT_FOUND, order_id,
                                order_data, <<>>))
            /\ UNCHANGED calls
       ELSE \E order \in OrderById(order_id) :
               /\ calls' = [calls EXCEPT ![c] =
                               [pc |-> "loaded", user |-> current_user, data |-> order_data,
                                order |-> order, earlier |-> <<>>]]
               /\ UNCHANGED <<resp, pre>>
    /\ UNCHANGED <<users, products, orders, items, clock, nextPid, nextOid, sess, pages>>

\* update_order_status, lines 97-102: the assignment to the loaded row, db.commit(),
\* db.refresh(order), return.  The commit emits UPDATE orders SET status=?,
\* updated_at=now() WHERE id=? only when the assigned value differs from the value the
\* session loaded; the refresh reads the committed row.
update_order_status_commit(c) ==
    /\ ~Responded
    /\ calls[c].pc = "loaded"
    /\ LET loaded == calls[c].order
           assigned == SetStatus(loaded, calls[c].data)
           written == IF assigned = loaded THEN orders
                      ELSE {IF o.id = loaded.id
                            THEN [o EXCEPT !.status = assigned.status, !.updated_at = clock]
                            ELSE o : o \in orders}
       IN  /\ orders' = written
           /\ \E refreshed \in {o \in written : o.id = loaded.id} :
                  Respond(Response("update_order_status", calls[c].user.id, OK, loaded.id,
                                   calls[c].data, refreshed))
           /\ calls' = [d \in Calls |->
                          IF d = c THEN [calls[c] EXCEPT !.pc = "done"]
                          ELSE IF calls[d].pc = "loaded" /\ calls[d].order.id = loaded.id
                          THEN [calls[d] EXCEPT !.earlier = <<calls[c].data>>]
                          ELSE calls[d]]
    /\ UNCHANGED <<users, products, items, clock, nextPid, nextOid, sess, pages>>

\* The status specification: one order of the customer, and update_order_status
\* requests of any user in concurrent sessions.
InitStatus ==
    /\ users = SeedUsers
    /\ products = {PageProduct(1, 0)}
    /\ orders = {PageOrder(1, "u_john", "pending", 0)}
    /\ items = {InsertedItemAt(o) : o \in orders}
    /\ clock = MaxClock
    /\ nextPid = 1
    /\ nextOid = 1
    /\ sess = IdleSession
    /\ resp = NoResponse
    /\ pre = NoSnapshot
    /\ pages = [on |-> FALSE, log |-> <<>>]
    /\ calls = NoCalls

NextStatus ==
    \/ deliver_call
    \/ ~Responded /\ \E c \in Calls, u \in users, o \in OidRefs, d \in OrderUpdate :
             update_order_status_load(c, o, d, u)
    \/ \E c \in Calls : update_order_status_commit(c)

SpecStatus == InitStatus /\ [][NextStatus]_vars

\* create_order in the session of call c.  Lines 16-25: the existence query.
create_order_query_in(c, current_user, order_data) ==
    /\ ~Responded
    /\ calls[c].pc = "idle"
    /\ IF lookup_mismatch(order_data)
       THEN /\ Respond(Response("create_order", current_user.id, NOT_FOUND, 0, order_data,
                                not_found_detail(order_data)))
            /\ UNCHANGED calls
       ELSE /\ nextOid + Cardinality({d \in Calls : calls[d].pc = "checked"}) < MaxCallOrders
            /\ calls' = [calls EXCEPT ![c] =
                            [pc |-> "checked", user |-> current_user, data |-> order_data,
                             found |-> {p.id : p \in products_in(order_data)}]]
            /\ UNCHANGED <<resp, pre>>
    /\ UNCHANGED <<users, products, orders, items, clock, nextPid, nextOid, sess, pages>>

\* Mutant of create_order_flush_in: the id of the new order is the number of committed
\* orders plus one.
create_order_flush_in_id_from_count(c) ==
    /\ ~Responded
    /\ calls[c].pc = "checked"
    /\ nextOid' = nextOid + 1
    /\ calls' = [calls EXCEPT ![c] =
                    [pc |-> "flushed", user |-> calls[c].user, data |-> calls[c].data,
                     found |-> calls[c].found,
                     order |-> NewOrder(calls[c].user, calls[c].data, Cardinality(orders) + 1),
                     added |-> <<>>]]
    /\ UNCHANGED <<users, products, orders, items, clock, nextPid, resp, pre, sess, pages>>

\* Lines 27-34: db.add(new_order); db.flush().  The id is a fresh uuid.
create_order_flush_in(c) ==
    /\ ~Responded
    /\ calls[c].pc = "checked"
    /\ nextOid' = nextOid + 1
    /\ calls' = [calls EXCEPT ![c] =
                    [pc |-> "flushed", user |-> calls[c].user, data |-> calls[c].data,
                     found |-> calls[c].found,
                     order |-> NewOrder(calls[c].user, calls[c].data, nextOid + 1),
                     added |-> <<>>]]
    /\ UNCHANGED <<users, products, orders, items, clock, nextPid, resp, pre, sess, pages>>

\* Lines 37-44: one pass of the loop, db.add(order_item).
create_order_add_in(c) ==
    /\ ~Responded
    /\ calls[c].pc = "flushed"
    /\ Len(calls[c].added) < Len(calls[c].data.items)
    /\ calls' = [calls EXCEPT ![c].added =
                    Append(@, NewOrderItem(calls[c].order.id,
                                           calls[c].data.items[Len(@) + 1]))]
    /\ UNCHANGED <<users, products, orders, items, clock, nextPid, nextOid, resp, pre, sess,
                   pages>>

\* Lines 46-49: db.commit(), db.refresh(new_order), return new_order.
create_order_commit_in(c) ==
    /\ ~Responded
    /\ calls[c].pc = "flushed"
    /\ Len(calls[c].added) = Len(calls[c].data.items)
    /\ LET new_items == {InsertedItem(calls[c].added[k], k) : k \in DOMAIN calls[c].added}
       IN  /\ orders' = orders \cup {calls[c].order}
           /\ items' = items \cup new_items
           /\ Respond(Response("create_order", calls[c].user.id, OK, calls[c].order.id,
                               calls[c].data, [order |-> calls[c].order, items |-> new_items]))
    /\ calls' = [calls EXCEPT ![c] = IdleSession]
    /\ UNCHANGED <<users, products, clock, nextPid, nextOid, sess, pages>>

\* The concurrent orders specification: the products exist and stay, and create_order
\* requests of any user run in concurrent sessions.
InitOrders ==
    /\ users = SeedUsers
    /\ products = {PageProduct(i, 0) : i \in PidRefs}
    /\ orders = {}
    /\ items = {}
    /\ clock = MaxClock
    /\ nextPid = MaxProducts
    /\ nextOid = 0
    /\ sess = IdleSession
    /\ resp = NoResponse
    /\ pre = NoSnapshot
    /\ pages = [on |-> FALSE, log |-> <<>>]
    /\ calls = NoCalls

NextOrders ==
    \/ deliver
    \/ ~Responded /\ \E c \in Calls, u \in users, d \in OrderCreate :
             create_order_query_in(c, u, d)
    \/ \E c \in Calls : create_order_flush_in(c)
    \/ \E c \in Calls : create_order_add_in(c)
    \/ \E c \in Calls : create_order_commit_in(c)

SpecOrders == InitOrders /\ [][NextOrders]_vars

\* register in the session of call c.  Lines 34-39: the existence check.
register_check(c, user_data) ==
    /\ ~Responded
    /\ calls[c].pc = "idle"
    /\ IF _user_exists(user_data.email)
       THEN /\ Respond(Response("register", "anonymous", ALREADY_EXISTS, 0, user_data,
                                UserAlreadyExistsError))
            /\ UNCHANGED calls
       ELSE /\ Cardinality(users) + Cardinality({d \in Calls : calls[d].pc = "checked"})
                  < MaxAuthUsers
            /\ calls' = [calls EXCEPT ![c] = [pc |-> "checked", data |-> user_data]]
            /\ UNCHANGED <<resp, pre>>
    /\ UNCHANGED <<users, products, orders, items, clock, nextPid, nextOid, sess, pages>>

\* Mutant of register_insert: the table has no unique index on email.
register_insert_without_unique_index(c) ==
    /\ ~Responded
    /\ calls[c].pc = "checked"
    /\ LET user_data == calls[c].data
       IN  /\ users' = users \cup {_create_user(user_data)}
           /\ Respond(Response("register", "anonymous", OK, 0, user_data,
                               TokenResponse(_create_user(user_data))))
    /\ calls' = [calls EXCEPT ![c] = IdleSession]
    /\ UNCHANGED <<products, orders, items, clock, nextPid, nextOid, sess, pages>>

\* Lines 41-51: _create_user adds the User and commits.  users.email is unique=True:
\* the INSERT of an email that another session has committed since the check fails,
\* the exception leaves register and nothing is written.
register_insert(c) ==
    /\ ~Responded
    /\ calls[c].pc = "checked"
    /\ LET user_data == calls[c].data
       IN  IF \E u \in users : u.email = user_data.email
           THEN /\ Respond(Response("register", "anonymous", STORE_ERROR, 0, user_data, <<>>))
                /\ UNCHANGED users
           ELSE /\ users' = users \cup {_create_user(user_data)}
                /\ Respond(Response("register", "anonymous", OK, 0, user_data,
                                    TokenResponse(_create_user(user_data))))
    /\ calls' = [calls EXCEPT ![c] = IdleSession]
    /\ UNCHANGED <<products, orders, items, clock, nextPid, nextOid, sess, pages>>

\* The concurrent registration specification: the seed's users, and register
\* requests in concurrent sessions.
NextRegister ==
    \/ deliver
    \/ ~Responded /\ \E c \in Calls, d \in UserCreate : register_check(c, d)
    \/ \E c \in Calls : register_insert(c)

SpecRegister == Init /\ [][NextRegister]_vars

(***************************************************************************)
(* The order endpoints (app/api/v1/endpoints/orders.py).  The handlers do   *)
(* not call OrderService: each one holds its own copy of the statements.    *)
(* A response carries the name of the operation, which is the name of the   *)
(* service method the handler corresponds to.                               *)
(***************************************************************************)
\* create_order, lines 32-42: the existence query.
endpoint_create_order_query(current_user, order_data) ==
    /\ ~Responded
    /\ sess.pc = "idle"
    /\ IF lookup_mismatch(order_data)
       THEN /\ Respond(Response("create_order", current_user.id, NOT_FOUND, 0, order_data,
                                not_found_detail(order_data)))
            /\ UNCHANGED sess
       ELSE /\ nextOid < MaxOrders
            /\ sess' = [pc |-> "checked", user |-> current_user, data |-> order_data,
                        found |-> {p.id : p \in products_in(order_data)}]
            /\ UNCHANGED <<resp, pre>>
    /\ UNCHANGED <<users, products, orders, items, clock, nextPid, nextOid, pages, calls>>

\* Lines 44-51: db.add(new_order); db.flush().
endpoint_create_order_flush ==
    /\ ~Responded
    /\ sess.pc = "checked"
    /\ nextOid' = nextOid + 1
    /\ sess' = [pc |-> "flushed", user |-> sess.user, data |-> sess.data,
                found |-> sess.found,
                order |-> NewOrder(sess.user, sess.data, nextOid + 1), added |-> <<>>]
    /\ UNCHANGED <<users, products, orders, items, clock, nextPid, resp, pre, pages, calls>>

\* Lines 53-61: one pass of the loop, db.add(order_item).
endpoint_create_order_add ==
    /\ ~Responded
    /\ sess.pc = "flushed"
    /\ Len(sess.added) < Len(sess.data.items)
    /\ sess' = [sess EXCEPT !.added =
                   Append(@, NewOrderItem(sess.order.id, sess.data.items[Len(@) + 1]))]
    /\ UNCHANGED <<users, products, orders, items, clock, nextPid, nextOid, resp, pre, pages,
                   calls>>

\* Lines 63-66: db.commit(), db.refresh(new_order), the response.
endpoint_create_order_commit ==
    /\ ~Responded
    /\ sess.pc = "flushed"
    /\ Len(sess.added) = Len(sess.data.items)
    /\ LET new_items == {InsertedItem(sess.added[k], k) : k \in DOMAIN sess.added}
       IN  /\ orders' = orders \cup {sess.order}
           /\ items' = items \cup new_items
           /\ Respond(Response("create_order", sess.user.id, OK, sess.order.id, sess.data,
                               [order |-> sess.order, items |-> new_items]))
    /\ sess' = IdleSession
    /\ UNCHANGED <<users, products, clock, nextPid, nextOid, pages, calls>>

\* A failure of the store at the flush, at an add or at the commit.
endpoint_create_order_fail ==
    /\ ~Responded
    /\ sess.pc \in {"checked", "flushed"}
    /\ Respond(Response("create_order", sess.user.id, STORE_ERROR,
                        IF sess.pc = "flushed" THEN sess.order.id ELSE 0, sess.data, <<>>))
    /\ sess' = IdleSession
    /\ UNCHANGED <<users, products, orders, items, clock, nextPid, nextOid, pages, calls>>

\* get_user_orders, lines 84-90.
endpoint_get_user_orders(current_user, skip, limit) ==
    /\ ~Responded
    /\ \E page \in {offset_limit(s, skip, limit) :
                       s \in order_by_created_at_desc(
                                {o \in orders : o.user_id = current_user.id})} :
           LET req == [skip |-> skip, limit |-> limit, filter |-> None]
           IN  /\ Respond(Response("get_user_orders", current_user.id, OK, 0, req, page))
               /\ pages' = Logged("get_user_orders", current_user.id, req, page)
               /\ UNCHANGED <<users, products, orders, items, clock, nextPid, nextOid, sess,
                              calls>>

\* get_order, lines 106-120: 404 when there is no such order, then the ownership check.
endpoint_get_order(current_user, order_id) ==
    /\ ~Responded
    /\ IF OrderById(order_id) = {}
       THEN Respond(Response("get_order", current_user.id, NOT_FOUND, order_id, <<>>, <<>>))
       ELSE \E order \in OrderById(order_id) :
               IF order.user_id # current_user.id /\ current_user.role # ADMIN
               THEN Respond(Response("get_order", current_user.id, FORBIDDEN, order_id,
                                     <<>>, <<>>))
               ELSE Respond(Response("get_order", current_user.id, OK, order_id, <<>>, order))
    /\ UNCHANGED <<users, products, orders, items, clock, nextPid, nextOid, sess, pages,
                   calls>>

\* update_order, lines 138-159: the role check, 404, the assignment, commit, refresh.
endpoint_update_order(order_id, order_data, current_user) ==
    /\ ~Responded
    /\ IF current_user.role # ADMIN
       THEN /\ Respond(Response("update_order_status", current_user.id, FORBIDDEN, order_id,
                                order_data, <<>>))
            /\ UNCHANGED orders
       ELSE IF OrderById(order_id) = {}
       THEN /\ Respond(Response("update_order_status", current_user.id, NOT_FOUND, order_id,
                                order_data, <<>>))
            /\ UNCHANGED orders
       ELSE \E order \in OrderById(order_id) :
               LET updated == Touch(order, SetStatus(order, order_data))
               IN  /\ orders' = (orders \ {order}) \cup {updated}
                   /\ Respond(Response("update_order_status", current_user.id, OK, order_id,
                                       order_data, updated))
    /\ UNCHANGED <<users, products, items, clock, nextPid, nextOid, sess, pages, calls>>

\* get_all_orders, lines 163-193.  The query parameter of line 166 is named status, so
\* inside the handler status is the filter (a string or None) and not fastapi's status
\* module: for a caller who is not an admin, line 182 evaluates
\* status.HTTP_403_FORBIDDEN on it, which raises AttributeError, and the request ends
\* in a 500.
endpoint_get_all_orders(current_user, skip, limit, status) ==
    /\ ~Responded
    /\ LET req == [skip |-> skip, limit |-> limit, filter |-> status]
       IN  IF current_user.role # ADMIN
           THEN /\ Respond(Response("get_all_orders", current_user.id, INTERNAL_ERROR, 0, req,
                                    <<>>))
                /\ UNCHANGED pages
           ELSE \E page \in {offset_limit(s, skip, limit) :
                                s \in order_by_created_at_desc(
                                        IF status # None /\ status[1] # ""
                                        THEN {o \in orders : o.status = status[1]}
                                        ELSE orders)} :
                   /\ Respond(Response("get_all_orders", current_user.id, OK, 0, req, page))
                   /\ pages' = Logged("get_all_orders", current_user.id, req, page)
    /\ UNCHANGED <<users, products, orders, items, clock, nextPid, nextOid, sess, calls>>

\* The endpoints specification: the products exist and stay, and any user calls the
\* order endpoints.
InitEndpoints ==
    /\ users = SeedUsers \cup RegisteredUsers
    /\ products = {PageProduct(1, 0)}
    /\ orders = {}
    /\ items = {}
    /\ clock = 0
    /\ nextPid = 1
    /\ nextOid = 0
    /\ sess = IdleSession
    /\ resp = NoResponse
    /\ pre = NoSnapshot
    /\ pages = [on |-> FALSE, log |-> <<>>]
    /\ calls = NoCalls

NextEndpoints ==
    \/ deliver
    \/ Tick
    \/ ~Responded /\ \E u \in users, d \in OrderCreate : endpoint_create_order_query(u, d)
    \/ endpoint_create_order_flush
    \/ endpoint_create_order_add
    \/ endpoint_create_order_commit
    \/ endpoint_create_order_fail
    \/ ~Responded /\ \E u \in users, k \in Skips, l \in Limits :
             endpoint_get_user_orders(u, k, l)
    \/ ~Responded /\ \E u \in users, o \in OidRefs : endpoint_get_order(u, o)
    \/ ~Responded /\ \E u \in users, o \in OidRefs, d \in OrderUpdate :
             endpoint_update_order(o, d, u)
    \/ ~Responded /\ \E u \in users, k \in Skips, l \in Limits, f \in PageStatusFilters :
             endpoint_get_all_orders(u, k, l, f)

SpecEndpoints == InitEndpoints /\ [][NextEndpoints]_vars

\* The same requests sent to OrderService.
NextService ==
    \/ deliver
    \/ Tick
    \/ ~Responded /\ \E u \in users, d \in OrderCreate : create_order_query(u, d)
    \/ create_order_flush
    \/ create_order_add
    \/ create_order_commit
    \/ create_order_fail
    \/ ~Responded /\ \E u \in users, k \in Skips, l \in Limits : get_user_orders(u, k, l)
    \/ ~Responded /\ \E u \in users, o \in OidRefs : get_order(u, o)
    \/ ~Responded /\ \E u \in users, o \in OidRefs, d \in OrderUpdate :
             update_order_status(o, d, u)
    \/ ~Responded /\ \E u \in users, k \in Skips, l \in Limits, f \in PageStatusFilters :
             get_all_orders(u, k, l, f)

(***************************************************************************)
(* Properties.  In a state where Responded holds, resp is the response of  *)
(* the step just taken, pre is the committed store that step started from  *)
(* and users, products, orders, items are the committed store it left.     *)
(***************************************************************************)
Caller == CHOOSE u \in pre.users : u.id = resp.actor
Ended(op) == Responded /\ resp.op = op
PreProduct(product_id) == {p \in pre.products : p.id = product_id}
PreOrder(order_id) == {o \in pre.orders : o.id = order_id}

\* The product ids of a request that name no product of the store the request found.
Requested(order_data) == {order_data.items[i].product_id : i \in DOMAIN order_data.items}
Unknown(order_data) == {id \in Requested(order_data) : PreProduct(id) = {}}

\* C1: create_order is atomic.  When the call has ended, the committed store holds
\* either the new Order with exactly len(items) OrderItems that reference it (and
\* nothing else is new), or neither the Order nor any OrderItem of it; the same while
\* the Order row is flushed and not yet committed.
C1_CreateOrderAtomic ==
    /\ sess.pc = "flushed" =>
          OrderById(sess.order.id) = {} /\ ItemsOf(sess.order.id) = {}
    /\ Ended("create_order") =>
          IF resp.code = OK
          THEN /\ Cardinality(OrderById(resp.id)) = 1
               /\ Cardinality(ItemsOf(resp.id)) = Len(resp.req.items)
               /\ orders \ pre.orders = OrderById(resp.id)
               /\ items \ pre.items = ItemsOf(resp.id)
               /\ pre.orders \subseteq orders /\ pre.items \subseteq items
          ELSE /\ orders = pre.orders /\ items = pre.items
               /\ resp.id # 0 => OrderById(resp.id) = {} /\ ItemsOf(resp.id) = {}

\* C1 witness: the store failed after the Order row of a two-item request was flushed.
C1_Witness ==
    Ended("create_order") /\ resp.code = STORE_ERROR /\ resp.id # 0
        /\ Len(resp.req.items) = 2

\* C2: a create_order call that names at least one product id without a Product ends
\* NotFound, its message names every such id, and no Order or OrderItem is written;
\* no such call gets past the existence query (every id of a request in progress was
\* found by its query).
C2_MissingProductsNotFound ==
    /\ (Ended("create_order") /\ resp.code = NOT_FOUND /\ Unknown(resp.req) # {}) =>
          /\ resp.out = Unknown(resp.req)
          /\ orders = pre.orders /\ items = pre.items
          /\ \A u \in users :
                Cardinality({o \in orders : o.user_id = u.id})
                   = Cardinality({o \in pre.orders : o.user_id = u.id})
    /\ sess.pc # "idle" => Requested(sess.data) \subseteq sess.found

\* C2 witness: the caller owns an order, names two ids that have no Product, and is
\* told both.
C2_Witness ==
    /\ Ended("create_order") /\ resp.code = NOT_FOUND
    /\ Cardinality(Unknown(resp.req)) = 2
    /\ resp.out = Unknown(resp.req)
    /\ \E o \in orders : o.user_id = resp.actor

\* C3 (as claimed): NotFound is returned only when some requested id has no matching
\* Product, so a request whose ids all exist is never answered NotFound, also when an
\* id appears in two items.
C3_NotFoundOnlyWhenMissing ==
    (Ended("create_order") /\ resp.code = NOT_FOUND) => Unknown(resp.req) # {}

\* C3: the refuted case is reached: every requested id exists, one id is named by two
\* items, and the answer is NotFound with an empty list of ids.
C3_DuplicateRejected ==
    /\ Ended("create_order") /\ resp.code = NOT_FOUND
    /\ Unknown(resp.req) = {} /\ resp.out = {}
    /\ Len(resp.req.items) > Cardinality(Requested(resp.req))

\* C4: get_order on an existing order succeeds, returning that order, exactly when the
\* caller owns the order or is an admin; every other caller is answered Forbidden.
C4_GetOrderIffOwnerOrAdmin ==
    Ended("get_order") =>
       \A o \in PreOrder(resp.id) :
          /\ (resp.code = OK) <=> (Caller.id = o.user_id \/ Caller.role = ADMIN)
          /\ resp.code = OK => resp.out = o
          /\ resp.code # OK => resp.code = FORBIDDEN
          /\ orders = pre.orders /\ items = pre.items

\* C4 witness: a customer asks for an existing order of another user and is refused.
C4_Witness ==
    /\ Ended("get_order") /\ resp.code = FORBIDDEN
    /\ Caller.role = CUSTOMER
    /\ \E o \in PreOrder(resp.id) : o.user_id # Caller.id

\* C5 (as claimed): for a caller who is not an admin, get_all_orders,
\* update_order_status, create_product, update_product and delete_product end
\* Forbidden, whether or not the order or product they name exists.
C5_NonAdminAlwaysForbidden ==
    (/\ Responded
     /\ resp.op \in {"get_all_orders", "update_order_status", "create_product",
                     "update_product", "delete_product"}
     /\ Caller.role # ADMIN)
        => resp.code = FORBIDDEN

\* C5: the refuted case is reached: a customer's update_product on an id that names
\* no product is answered NotFound.
C5_NotFoundBeforeRole ==
    /\ Ended("update_product") /\ resp.code = NOT_FOUND
    /\ Caller.role = CUSTOMER
    /\ PreProduct(resp.id) = {}

\* C6: get_order on an id that names no order ends NotFound for every caller, never
\* Forbidden.
C6_GetOrderExistenceFirst ==
    (Ended("get_order") /\ PreOrder(resp.id) = {}) => resp.code = NOT_FOUND

\* C6 witness: orders exist, none of them the caller's; a customer asks for an id
\* that names no order and is answered NotFound.
C6_Witness ==
    /\ Ended("get_order") /\ resp.code = NOT_FOUND
    /\ PreOrder(resp.id) = {}
    /\ Caller.role = CUSTOMER
    /\ pre.orders # {} /\ \A o \in pre.orders : o.user_id # Caller.id

\* C7: update_order_status answers a caller who is not an admin Forbidden for every
\* order id, and answers NotFound only to an admin whose id names no order.
C7_UpdateOrderStatusRoleFirst ==
    Ended("update_order_status") =>
       /\ Caller.role # ADMIN => (resp.code = FORBIDDEN /\ orders = pre.orders)
       /\ resp.code = NOT_FOUND => (Caller.role = ADMIN /\ PreOrder(resp.id) = {})
       /\ (Caller.role = ADMIN /\ PreOrder(resp.id) = {}) => resp.code = NOT_FOUND

\* C7 witness: a customer names an order id that does not exist and is answered
\* Forbidden.
C7_Witness ==
    /\ Ended("update_order_status") /\ resp.code = FORBIDDEN
    /\ Caller.role = CUSTOMER
    /\ PreOrder(resp.id) = {}

\* C8: for an admin, an existing order and a new status among the five values,
\* update_order_status succeeds whatever the current status is, the stored order has
\* the new status and is the order returned; nothing else of the order changes.
C8_AnyStatusTransition ==
    (/\ Ended("update_order_status")
     /\ Caller.role = ADMIN
     /\ PreOrder(resp.id) # {}
     /\ resp.req.status # None)
        => /\ resp.req.status[1] \in OrderStatus
           /\ resp.code = OK
           /\ resp.out.status = resp.req.status[1]
           /\ OrderById(resp.id) = {resp.out}
           /\ orders \ {resp.out} = pre.orders \ PreOrder(resp.id)
           /\ \A o \in PreOrder(resp.id) :
                 /\ resp.out.user_id = o.user_id /\ resp.out.total = o.total
                 /\ resp.out.created_at = o.created_at

\* C8 witness: a delivered order is set back to pending.
C8_Witness ==
    /\ Ended("update_order_status") /\ resp.code = OK
    /\ \E o \in PreOrder(resp.id) : o.status = "delivered"
    /\ resp.req.status = Some("pending")
    /\ \E o \in OrderById(resp.id) : o.status = "pending"

\* C9 (as claimed): delete_product by an admin on an existing product always removes
\* the product, also when order items reference it, and leaves every order item as
\* it was.
C9_DeleteAlwaysRemoves ==
    (/\ Ended("delete_product")
     /\ Caller.role = ADMIN
     /\ PreProduct(resp.id) # {})
        => /\ resp.code = OK
           /\ ProductById(resp.id) = {}
           /\ items = pre.items

\* C9: the refuted case is reached: an order item references the product, the delete
\* fails in the store and the product is still there.
C9_ReferencedDeleteFails ==
    /\ Ended("delete_product") /\ resp.code = STORE_ERROR
    /\ Caller.role = ADMIN
    /\ \E i \in pre.items : i.product_id = resp.id
    /\ ProductById(resp.id) = PreProduct(resp.id) /\ PreProduct(resp.id) # {}

\* The rows a logged list request selects from.
ListedRows(e) ==
    CASE e.op = "get_user_orders" -> {o \in orders : o.user_id = e.actor}
      [] e.op = "get_all_orders" -> get_all_orders_rows(e.req.filter)
      [] e.op = "get_products" ->
            get_products_rows(e.req.filter.category, e.req.filter.featured, e.req.filter.search)

\* C10 (as claimed): a list response for limit L has at most L elements, and over an
\* unchanged store the pages for skip k and skip k + L are disjoint and are the two
\* consecutive windows of one creation-time-descending order of the rows, also when
\* rows have the same creation time.
C10_PagesDisjointAndConsecutive ==
    /\ \A i \in DOMAIN pages.log : Len(pages.log[i].out) <= pages.log[i].req.limit
    /\ (Len(pages.log) = 2 /\ NextPageOf(pages.log[1], pages.log[2])) =>
          LET a == pages.log[1]
              b == pages.log[2]
          IN  /\ Range(a.out) \cap Range(b.out) = {}
              /\ \E s \in order_by_created_at_desc(ListedRows(a)) :
                    /\ a.out = offset_limit(s, a.req.skip, a.req.limit)
                    /\ b.out = offset_limit(s, b.req.skip, b.req.limit)

\* C10: the refuted case is reached: two rows have the same creation time and the page
\* that follows returns a row of the page before it.
C10_PagesOverlap ==
    /\ Len(pages.log) = 2 /\ NextPageOf(pages.log[1], pages.log[2])
    /\ Range(pages.log[1].out) \cap Range(pages.log[2].out) # {}
    /\ \E r1, r2 \in ListedRows(pages.log[1]) : r1 # r2 /\ r1.created_at = r2.created_at

\* C11: get_user_orders returns only orders whose user_id is the caller's id, whatever
\* the caller's role, each order at most once and newest creation time first; with
\* skip = 0 and limit at least the number of the caller's orders it returns all of them.
C11_OwnOrdersOnly ==
    Ended("get_user_orders") =>
       LET own == {o \in orders : o.user_id = resp.actor}
       IN  /\ resp.code = OK
           /\ Range(resp.out) \subseteq own
           /\ Cardinality(Range(resp.out)) = Len(resp.out)
           /\ IsDesc(resp.out)
           /\ (resp.req.skip = 0 /\ resp.req.limit >= Cardinality(own)) => Range(resp.out) = own
           /\ orders = pre.orders

\* C11 witness: the store holds an order of the caller and an order of another user;
\* the caller lists from skip 0 and gets the own order alone.
C11_Witness ==
    /\ Ended("get_user_orders") /\ resp.req.skip = 0
    /\ Len(resp.out) = 1 /\ resp.out[1].user_id = resp.actor
    /\ \E o \in orders : o.user_id # resp.actor

\* C12 (as claimed): for an admin, get_all_orders with a status filter returns a window
\* of exactly the orders whose status equals the filter, newest first, and without a
\* filter a window of all orders; an order of another status never appears.
C12_StatusFilterExact ==
    (Ended("get_all_orders") /\ Caller.role = ADMIN) =>
       LET selected == IF resp.req.filter # None
                       THEN {o \in orders : o.status = resp.req.filter[1]}
                       ELSE orders
       IN  /\ resp.code = OK
           /\ \E s \in order_by_created_at_desc(selected) :
                 resp.out = offset_limit(s, resp.req.skip, resp.req.limit)

\* C12: the refuted case is reached: the filter is present and empty, and orders whose
\* status is not the filter's are returned.
C12_EmptyFilterReturnsAll ==
    /\ Ended("get_all_orders") /\ Caller.role = ADMIN /\ resp.code = OK
    /\ resp.req.filter = Some("")
    /\ \E i \in DOMAIN resp.out : resp.out[i].status # ""

\* text contains sub, letters compared without regard to case.
ContainsIgnoringCase(text, sub) ==
    \E i \in 0..(Len(text) - Len(sub)) :
       \A j \in 1..Len(sub) : Lower(text[i + j]) = Lower(sub[j])

\* The products the filters of a get_products request select, as the claim states them.
Satisfying(filter) ==
    {p \in products :
        /\ (filter.category # None /\ filter.category # Some("all"))
              => p.category = filter.category[1]
        /\ filter.featured # None => p.featured = filter.featured[1]
        /\ filter.search # None
              => \/ ContainsIgnoringCase(p.name, filter.search[1])
                 \/ ContainsIgnoringCase(p.description, filter.search[1])}

\* C13 (as claimed): get_products returns a window of exactly the products that
\* satisfy every supplied filter: category equal to the given value unless it is absent
\* or "all", featured equal to the given boolean when present, and the search text
\* contained, without regard to case, in the name or in the description.
C13_FiltersCompose ==
    Ended("get_products") =>
       /\ resp.code = OK
       /\ \E s \in order_by_created_at_desc(Satisfying(resp.req.filter)) :
             resp.out = offset_limit(s, resp.req.skip, resp.req.limit)

\* C13: the refuted case is reached: the search text is "_" and a product is returned
\* that has no "_" in its name and none in its description.
C13_WildcardMatches ==
    /\ Ended("get_products") /\ resp.req.filter.search = Some(<<"_">>)
    /\ \E i \in DOMAIN resp.out :
          /\ ~ContainsIgnoringCase(resp.out[i].name, <<"_">>)
          /\ ~ContainsIgnoringCase(resp.out[i].description, <<"_">>)

\* The fields a ProductUpdate payload may carry.
ProductUpdateFields == {"name", "description", "price", "image", "category", "stock", "featured"}

\* C14 (as claimed): update_product by an admin on an existing product overwrites
\* exactly the fields present in the payload with the supplied values and leaves the
\* other fields, the id and the creation time as they were; an empty payload changes
\* nothing.
C14_UpdateOverwritesPresentFields ==
    (/\ Ended("update_product")
     /\ Caller.role = ADMIN
     /\ PreProduct(resp.id) # {})
        => /\ resp.code = OK
           /\ products \ ProductById(resp.id) = pre.products \ PreProduct(resp.id)
           /\ \E new \in ProductById(resp.id), old \in PreProduct(resp.id) :
                 /\ resp.out = new
                 /\ new.id = old.id /\ new.created_at = old.created_at
                 /\ \A f \in ProductUpdateFields \ resp.req.fields : new[f] = old[f]
                 /\ \A f \in resp.req.fields \ resp.req.nulls : new[f] = resp.req.v[f]
                 /\ resp.req.fields = {} => new = old

\* C14: the refuted case is reached: the payload sets stock to null, the update fails
\* in the store and no field of the product is overwritten.
C14_NullFieldFails ==
    /\ Ended("update_product") /\ resp.code = STORE_ERROR
    /\ Caller.role = ADMIN
    /\ resp.req.nulls = {"stock"}
    /\ PreProduct(resp.id) # {} /\ ProductById(resp.id) = PreProduct(resp.id)

\* a and b are the same text but for the case of their letters.
DiffersInCaseOnly(a, b) ==
    /\ a # b /\ Len(a) = Len(b)
    /\ \A i \in DOMAIN a : Lower(a[i]) = Lower(b[i])

\* C15: register fails AlreadyExists, creating no user, exactly when a user with the
\* very same email (case included) is registered; otherwise it creates exactly one
\* new user, a customer with that email.  No two users have the same email.
C15_RegisterUniqueEmail ==
    /\ \A u1, u2 \in users : u1.email = u2.email => u1 = u2
    /\ Ended("register") =>
          IF \E u \in pre.users : u.email = resp.req.email
          THEN resp.code = ALREADY_EXISTS /\ users = pre.users
          ELSE /\ resp.code = OK
               /\ pre.users \subseteq users
               /\ Cardinality(users) = Cardinality(pre.users) + 1
               /\ \A new \in users \ pre.users :
                     /\ new.email = resp.req.email /\ new.role = CUSTOMER
                     /\ \A u \in pre.users : u.id # new.id
                     /\ resp.out.user.id = new.id

\* C15 witness: an email that differs from a registered one in the case of a letter
\* only is registered as a new user.
C15_Witness ==
    /\ Ended("register") /\ resp.code = OK
    /\ \E u \in pre.users : DiffersInCaseOnly(u.email, resp.req.email)
    /\ \E u \in users \ pre.users : u.email = resp.req.email

\* C16: a login that fails because the email is unknown and one that fails because
\* the password is wrong give the same result: the same error kind, message and
\* headers, no token, and the store as it was.  A login fails exactly in these two cases.
C16_LoginFailsUniformly ==
    Ended("login") =>
       LET known == {u \in pre.users : u.email = resp.req.email}
           matching == {u \in known : verify_password(resp.req.password, u.password)}
       IN  /\ users = pre.users
           /\ (resp.code = OK) <=> (matching # {})
           /\ resp.code = OK => \E u \in matching : resp.out.access_token.sub = u.id
           /\ resp.code # OK =>
                 /\ resp.code = INVALID_CREDENTIALS
                 /\ resp.out = [detail |-> "Incorrect email or password",
                                headers |-> {<<"WWW-Authenticate", "Bearer">>}]
                 /\ "access_token" \notin DOMAIN resp.out

\* C16 witness: a registered user logs in with a wrong password and gets the result
\* an unknown email gets.
C16_Witness ==
    /\ Ended("login") /\ resp.code = INVALID_CREDENTIALS
    /\ \E u \in pre.users :
          u.email = resp.req.email /\ ~verify_password(resp.req.password, u.password)

\* C17: in every committed state every order has at least one order item, and what a
\* reader (get_order, get_user_orders, get_all_orders) is given at any point of a
\* running create_order is an order with its items: the order a create_order has
\* flushed and not yet committed is not visible.
C17_NoOrderWithoutItems ==
    /\ \A o \in orders : ItemsOf(o.id) # {}
    /\ (Ended("get_order") /\ resp.code = OK) => ItemsOf(resp.out.id) # {}
    /\ ((Ended("get_user_orders") \/ Ended("get_all_orders")) /\ resp.code = OK) =>
          \A i \in DOMAIN resp.out : ItemsOf(resp.out[i].id) # {}
    /\ (Ended("get_order") /\ sess.pc = "flushed" /\ resp.id = sess.order.id) =>
          resp.code = NOT_FOUND

\* C17 witness: a create_order has flushed its Order row and added an item; a reader
\* asks for that order and does not see it.
C17_Witness ==
    /\ Ended("get_order") /\ resp.code = NOT_FOUND
    /\ sess.pc = "flushed" /\ Len(sess.added) >= 1
    /\ resp.id = sess.order.id

\* C18 (as claimed): when a create_order commits, every one of its order items
\* references a product that exists at that moment, also when a delete_product ran
\* between the existence query and the commit.
C18_ItemsReferenceExistingProducts ==
    (Ended("create_order") /\ resp.code = OK) =>
       \A i \in ItemsOf(resp.id) : ProductById(i.product_id) # {}

\* C18: the refuted case is reached: the product passed the existence query of the
\* request, was deleted before the commit step began, and the order is committed with
\* an item that references it.
C18_DanglingItemCommitted ==
    /\ Ended("create_order") /\ resp.code = OK
    /\ \E i \in ItemsOf(resp.id) :
          /\ ProductById(i.product_id) = {}
          /\ PreProduct(i.product_id) = {}

C20_StatusValidAndInitiallyPending ==
    /\ \A o \in orders : o.status \in OrderStatus
    /\ sess.pc = "flushed" => sess.order.status = "pending"
    /\ (Ended("create_order") /\ resp.code = OK) =>
          /\ resp.out.order.status = "pending"
          /\ \A o \in OrderById(resp.id) : o.status = "pending"

\* C20 witness: a create_order call has committed and its order is stored as pending.
C20_Witness ==
    /\ Ended("create_order") /\ resp.code = OK
    /\ PreOrder(resp.id) = {}
    /\ \E o \in OrderById(resp.id) : o.status = "pending" /\ o.user_id = resp.actor

\* C21: a successful create_order stores the Order with user_id = the caller's id and
\* total = the total of the request as supplied, and for the k-th item of the request
\* one OrderItem of that order with the item's product_id, quantity and price, and no
\* other item; the total is not compared with the sum of price * quantity.
C21_OrderStoredAsSupplied ==
    (Ended("create_order") /\ resp.code = OK) =>
       /\ \A o \in OrderById(resp.id) :
             o.user_id = resp.actor /\ o.total = resp.req.total
       /\ OrderById(resp.id) # {}
       /\ Cardinality(ItemsOf(resp.id)) = Len(resp.req.items)
       /\ \A k \in DOMAIN resp.req.items :
             \E i \in ItemsOf(resp.id) :
                /\ i.id = <<resp.id, k>>
                /\ i.product_id = resp.req.items[k].product_id
                /\ i.quantity = resp.req.items[k].quantity
                /\ i.price = resp.req.items[k].price

\* C21 witness: an order of two items is committed with a total that is not the sum
\* of price * quantity over its items.
C21_Witness ==
    /\ Ended("create_order") /\ resp.code = OK
    /\ Len(resp.req.items) = 2
    /\ \E o \in OrderById(resp.id) :
          o.total = resp.req.total /\ o.total # ItemsSum(resp.req.items)

\* C22: no step changes or removes a committed OrderItem (its price and quantity
\* stay the ones captured at order time, whatever update_product does to the product
\* it references), and no step of create_order changes the products.
C22_ItemsFixedProductsUntouched ==
    [][/\ \A i \in items : i \in items'
       /\ (sess' # sess \/ (resp' # resp /\ resp'.op = "create_order")) =>
             products' = products]_vars

\* C22 witness: update_product has changed the price and the stock of a product that
\* an order item references; the item was there before and keeps its own price.
C22_Witness ==
    /\ Ended("update_product") /\ resp.code = OK
    /\ \E p \in ProductById(resp.id), q \in PreProduct(resp.id) :
          /\ p.price # q.price /\ p.stock # q.stock
          /\ \E i \in items \cap pre.items :
                i.product_id = p.id /\ i.price = q.price /\ i.price # p.price

\* C25: in every step every User stays in the store as it is, its role included, and
\* every User a step adds has the role customer: no register, login, order or catalog
\* operation makes a customer an admin.
C25_RoleNeverChanges ==
    [][/\ \A u \in users : \E n \in users' : n.id = u.id /\ n.role = u.role
       /\ \A n \in users' : (\A u \in users : u.id # n.id) => n.role = CUSTOMER]_vars

\* C25 witness: a user who registered is stored as a customer and has been refused
\* an admin operation.
C25_Witness ==
    /\ Responded /\ resp.code = FORBIDDEN
    /\ Caller \notin SeedUsers
    /\ Caller.role = CUSTOMER
    /\ Caller \in users

\* C27: when an operation has ended Forbidden or NotFound, the users, products,
\* orders and order items of the store are the ones the operation found.
C27_ErrorsLeaveStoreUnchanged ==
    (Responded /\ resp.code \in {FORBIDDEN, NOT_FOUND}) =>
       /\ users = pre.users
       /\ products = pre.products
       /\ orders = pre.orders
       /\ items = pre.items

\* C27 witness: a customer's delete_product on an existing product that no order item
\* references has ended Forbidden, and the product is still there.
C27_Witness ==
    /\ Ended("delete_product") /\ resp.code = FORBIDDEN
    /\ \E p \in ProductById(resp.id) : ~DetachFails(p)
    /\ orders # {}

\* C28: update_order_status by an admin on an existing order with no status in the
\* payload succeeds, writes nothing (the order keeps its status and every other
\* column, updated_at included) and returns the order as it is stored.
C28_NoStatusChangesNothing ==
    (/\ Ended("update_order_status")
     /\ Caller.role = ADMIN
     /\ PreOrder(resp.id) # {}
     /\ resp.req.status = None)
    => /\ resp.code = OK
       /\ orders = pre.orders /\ items = pre.items
       /\ resp.out \in OrderById(resp.id)

\* C28 witness: an admin sends no status for an order that is shipped, at a time later
\* than the order's last update, and gets the shipped order back.
C28_Witness ==
    /\ Ended("update_order_status") /\ resp.code = OK
    /\ resp.req.status = None
    /\ resp.out.status = "shipped"
    /\ resp.out.updated_at < clock
    /\ resp.out \in orders

\* C23 (as claimed): when an update_order_status call commits a new status after
\* another call on the same order committed one while it was in flight, both calls
\* have succeeded and the order has the new status of the call that committed last.
C23_LastCommitWins ==
    \A c \in Calls :
       (/\ calls[c].pc = "done"
        /\ calls[c].data.status # None
        /\ calls[c].earlier # <<>>
        /\ calls[c].earlier[1].status # None)
       => /\ resp.code = OK
          /\ \A o \in OrderById(calls[c].order.id) : o.status = calls[c].data.status[1]

\* C23: the refuted case is reached: the call that commits last asks for the status
\* it loaded, another call has committed a different status in between, and the
\* order keeps that status although the last call succeeded.
C23_LastCommitLost ==
    \E c \in Calls :
       /\ calls[c].pc = "done" /\ resp.code = OK
       /\ calls[c].data.status = Some(calls[c].order.status)
       /\ calls[c].earlier # <<>>
       /\ calls[c].earlier[1].status # None
       /\ calls[c].earlier[1].status # calls[c].data.status
       /\ resp.out.status = calls[c].earlier[1].status[1]
       /\ resp.out \in orders

\* The ids of a request are pairwise different (the existence query counts rows, so a
\* request that names a product twice is rejected whatever else happens).
DistinctIds(order_data) == Cardinality(Requested(order_data)) = Len(order_data.items)

C26_EmailsUnique ==
    /\ \A u, v \in users : u.email = v.email => u = v
    /\ Ended("register") =>
          IF \E u \in pre.users : u.email = resp.req.email
          THEN resp.code \in {ALREADY_EXISTS, STORE_ERROR} /\ users = pre.users
          ELSE /\ resp.code = OK
               /\ Cardinality(users \ pre.users) = 1
               /\ \A u \in users \ pre.users : u.email = resp.req.email

\* C26 witness: two register calls with the same email have both passed the existence
\* check; one has created the user and the other has failed at its insert.
C26_Witness ==
    /\ Ended("register") /\ resp.code = STORE_ERROR
    /\ Cardinality({u \in users : u.email = resp.req.email}) = 1
    /\ users = pre.users

\* C29 (as claimed): the order endpoints and OrderService implement the same
\* operations: every step of an endpoint (its response and the store it leaves) is a
\* step OrderService takes for the same request in the same store.
C29_EndpointsMatchService == [][NextService]_vars

\* C29: the refuted case is reached: a customer's get_all_orders on the endpoint ends
\* in an internal error, where OrderService.get_all_orders answers Forbidden.
C29_ForbiddenBecomesInternalError ==
    /\ Ended("get_all_orders") /\ resp.code = INTERNAL_ERROR
    /\ Caller.role = CUSTOMER
    /\ get_current_admin_user(Caller) = FORBIDDEN

====
